---- MODULE Spec2Model ----
(***************************************************************************)
(* Model of src/src/workflow.py: the three-node research workflow          *)
(* (extract_tools -> research -> analyze -> END) and the tool-name parsing *)
(* it applies to LLM responses.                                            *)
(*                                                                         *)
(* Text is modelled as a sequence of one-character strings, so that        *)
(* str.strip() and str.split("\n") are computed character by character.    *)
(* Optional values use the string "None"; tri-state booleans are the       *)
(* strings "True", "False" and "None".                                     *)
(***************************************************************************)
EXTENDS Naturals, Sequences, FiniteSets, TLC

(***************************************************************************)
(* Bounds of the model and constants of the program                        *)
(***************************************************************************)
\* longest LLM response enumerated character by character (SpecParse)
MaxContentLen == 4

\* tool_names[:4]
MaxTools == 4

\* search_companies(article_query, num_results=3)
ArticleNumResults == 3

\* search_companies(state.query, num_results=5)
FallbackNumResults == 5

\* scraped.markdown[:1500]
ChunkChars == 1500

NL == "\n"

\* the characters str.strip() removes (those the model's alphabet can hold)
Whitespace == {" ", "\t", "\n", "\r", "\f"}

\* alphabet of the enumerated LLM responses
Alphabet == {"A", "B", " ", NL}

Min(a, b) == IF a <= b THEN a ELSE b

\* s[:n]
Take(s, n) == SubSeq(s, 1, Min(n, Len(s)))

(***************************************************************************)
(* Tool-name parsing                                                       *)
(***************************************************************************)
RECURSIVE LStrip(_)
LStrip(s) ==
    IF s # <<>> /\ Head(s) \in Whitespace THEN LStrip(Tail(s)) ELSE s

RECURSIVE RStrip(_)
RStrip(s) ==
    IF s # <<>> /\ s[Len(s)] \in Whitespace
    THEN RStrip(SubSeq(s, 1, Len(s) - 1))
    ELSE s

\* str.strip()
Strip(s) == RStrip(LStrip(s))

\* str.split("\n"): one more piece than there are newlines, "" gives [""]
RECURSIVE SplitFrom(_, _)
SplitFrom(s, cur) ==
    IF s = <<>> THEN <<cur>>
    ELSE IF Head(s) = NL THEN <<cur>> \o SplitFrom(Tail(s), <<>>)
    ELSE SplitFrom(Tail(s), Append(cur, Head(s)))

SplitLines(s) == SplitFrom(s, <<>>)

NonEmpty(s) == s # <<>>

StripEach(lines) == [k \in 1..Len(lines) |-> Strip(lines[k])]

\* mutant of ParseNames: the "if name.strip()" filter is missing
ParseNames_KeepBlank(content) ==
    StripEach(SplitLines(Strip(content)))

\* [name.strip() for name in response.content.strip().split("\n") if name.strip()]
ParseNames(content) ==
    SelectSeq(StripEach(SplitLines(Strip(content))), NonEmpty)

\* "\n".join(names)
RECURSIVE JoinLines(_)
JoinLines(names) ==
    IF names = <<>> THEN <<>>
    ELSE IF Len(names) = 1 THEN names[1]
    ELSE names[1] \o <<NL>> \o JoinLines(Tail(names))

\* all character sequences over Alphabet of length at most n
RECURSIVE StringsUpTo(_)
StringsUpTo(n) ==
    IF n = 0 THEN {<<>>}
    ELSE LET shorter == StringsUpTo(n - 1)
         IN  shorter \cup {Append(s, c) : s \in {t \in shorter : Len(t) = n - 1}, c \in Alphabet}

\* "A\nB\n\nC\n"
ExampleContent == <<"A", NL, "B", NL, NL, "C", NL>>

ParseInputs == StringsUpTo(MaxContentLen) \cup {ExampleContent}

VARIABLES pstage, pcontent, parsed, rejoined, reparsed

pvars == <<pstage, pcontent, parsed, rejoined, reparsed>>

(***************************************************************************)
(* The workflow graph                                                      *)
(***************************************************************************)
\* graph.set_entry_point("extract_tools")
EntryPoint == "extract_tools"

\* mutant of Edge: the research node is wired straight to END
Edge_SkipAnalyze(n) ==
    CASE n = "extract_tools" -> "research"
      [] n = "research" -> "END"
      [] n = "analyze" -> "END"

\* graph.add_edge(...)
Edge(n) ==
    CASE n = "extract_tools" -> "research"
      [] n = "research" -> "analyze"
      [] n = "analyze" -> "END"

\* graph.add_node(...): where each node's handler begins
StartPc(n) ==
    CASE n = "extract_tools" -> "extract_search"
      [] n = "research" -> "research_enter"
      [] n = "analyze" -> "analyze_llm"
      [] n = "END" -> "END"

\* the field each node's partial update writes
UpdateField(n) ==
    CASE n = "extract_tools" -> "extracted_tools"
      [] n = "research" -> "companies"
      [] n = "analyze" -> "analysis"

(***************************************************************************)
(* Data                                                                    *)
(***************************************************************************)
\* ResearchState built from {"query": query}: every other field at its default
InitialResearchState(q) ==
    [query |-> q, extracted_tools |-> <<>>, companies |-> <<>>, analysis |-> "None"]

\* CompanyInfo(name=..., description=..., website=...): the rest at its default
CompanyInfo(name, description, website) ==
    [name |-> name, description |-> description, website |-> website,
     pricing_model |-> "Unknown", is_open_source |-> "None", tech_stack |-> <<>>,
     api_available |-> "None", language_support |-> <<>>,
     integration_capabilities |-> <<>>]

\* mutant of FallbackAnalysis: the placeholder carries no failure description
FallbackAnalysis_NoDescription ==
    [pricing_model |-> "Unknown", is_open_source |-> "None", tech_stack |-> <<>>,
     description |-> "", api_available |-> "None",
     language_support |-> <<>>, integration_capabilities |-> <<>>]

\* the CompanyAnalysis returned by the except branch of _analyze_company_content
FallbackAnalysis ==
    [pricing_model |-> "Unknown", is_open_source |-> "None", tech_stack |-> <<>>,
     description |-> "Failed to analyze content.", api_available |-> "None",
     language_support |-> <<>>, integration_capabilities |-> <<>>]

\* company.<field> = analysis.<field>, for the seven fields of the analysis
CopyAnalysis(c, a) ==
    [c EXCEPT !.pricing_model = a.pricing_model,
              !.is_open_source = a.is_open_source,
              !.tech_stack = a.tech_stack,
              !.description = a.description,
              !.api_available = a.api_available,
              !.language_support = a.language_support,
              !.integration_capabilities = a.integration_capabilities]

\* mutant of CapTools: the list is not truncated
CapTools_NoCap(names) == names

\* mutant of CapTools: the slice is one too long
CapTools_OffByOne(names) == Take(names, MaxTools + 1)

\* tool_names[:4]
CapTools(names) == Take(names, MaxTools)

\* mutant of UseFallback: the fallback is taken whatever was extracted
UseFallback_Always(extracted_tools) == TRUE

\* if not extracted_tools
UseFallback(extracted_tools) == extracted_tools = <<>>

\* if tool_search_results and tool_search_results.data
SiteFound(resp) == resp.present /\ resp.data # <<>>

(***************************************************************************)
(* What the collaborators may answer                                       *)
(***************************************************************************)
Queries == {"note taking apps", "vector databases"}

\* LLM text responses listing tool names
Contents ==
    { <<>>,
      <<" ", NL, " ">>,
      ExampleContent,
      <<"A", NL, "B", NL, "C", NL, "D", NL, "E">>,
      <<"B", NL, " ", "A", " ", NL, "B">> }

\* urls of the article results: a result may lack its url
RECURSIVE UrlLists(_)
UrlLists(n) ==
    IF n = 0 THEN {<<>>}
    ELSE LET shorter == UrlLists(n - 1)
         IN  shorter \cup {Append(s, u) : s \in {t \in shorter : Len(t) = n - 1},
                                          u \in {"", "https://article"}}

ArticleResultLists == UrlLists(ArticleNumResults)

\* markdown of a scraped article
ArticlePages == {<<"A", " ", "B">>}

\* one title per result of the fallback search, "" where the result has none
TitleLists == {<<>>, <<"">>, <<"Best A and B">>,
               [k \in 1..FallbackNumResults |-> "Best A and B"]}

\* responses to search_companies(f"{tool_name} official site", num_results=1)
ToolSearchResponses ==
    { [present |-> FALSE, data |-> <<>>],
      [present |-> TRUE, data |-> <<>>],
      [present |-> TRUE, data |-> <<[url |-> "https://site", markdown |-> "snippet"]>>],
      [present |-> TRUE, data |-> <<[url |-> "", markdown |-> ""]>>] }

\* values the structured LLM may return
Analyses ==
    { [pricing_model |-> "Freemium", is_open_source |-> "True",
       tech_stack |-> <<"Python">>, description |-> "A tool.",
       api_available |-> "False", language_support |-> <<"Python">>,
       integration_capabilities |-> <<"GitHub">>] }

Recommendations == {"Use A."}

NoCompany == CompanyInfo(<<>>, "", "")

NoError == [source |-> "none", stage |-> "none", at |-> "none"]

(***************************************************************************)
(* State of one run                                                        *)
(***************************************************************************)
VARIABLES
    pc,              \* position of the run
    node,            \* the graph node being executed
    state,           \* the Research State threaded through the graph
    search_results,  \* _extract_tools_step: urls of the article results
    j,               \* _extract_tools_step: index of the result being visited
    all_content,     \* _extract_tools_step: the combined buffer
    titles,          \* _research_step: titles of the fallback search
    tool_names,      \* _research_step: the capped candidate names
    i,               \* _research_step: index of the candidate being researched
    companies,       \* _research_step: the output list
    company,         \* _research_step: the CompanyInfo being filled
    result,          \* what run returned
    err,             \* the exception that ended the run
    started,         \* nodes in the order their handlers began
    completed,       \* nodes in the order their handlers returned
    writes,          \* state fields in the order they were written
    extractFailed,   \* the extraction LLM call raised
    path,            \* how _research_step obtained its candidates
    candidates,      \* the candidate names before the cap
    log,             \* per candidate: what its search and scrape answered
    fbSearch,        \* fallback search calls
    fbLLM,           \* fallback LLM calls
    tSearch,         \* per-candidate search calls
    tScrape,         \* per-candidate scrape calls
    tLLM             \* per-candidate structured LLM calls

ctl == <<pc, node, state, result, err>>
extractLocals == <<search_results, j, all_content>>
researchLocals == <<titles, tool_names, i, companies, company>>
stageHist == <<started, completed, writes>>
researchHist == <<path, candidates, log>>
counters == <<fbSearch, fbLLM, tSearch, tScrape, tLLM>>

wvars == <<ctl, extractLocals, researchLocals, stageHist, extractFailed,
           researchHist, counters>>

vars == <<wvars, pvars>>

\* Workflow(): nothing has run yet
WorkflowInit ==
    /\ pc = "idle"
    /\ node = "none"
    /\ state = InitialResearchState("")
    /\ search_results = <<>>
    /\ j = 1
    /\ all_content = <<>>
    /\ titles = <<>>
    /\ tool_names = <<>>
    /\ i = 1
    /\ companies = <<>>
    /\ company = NoCompany
    /\ result = "None"
    /\ err = NoError
    /\ started = <<>>
    /\ completed = <<>>
    /\ writes = <<>>
    /\ extractFailed = FALSE
    /\ path = "none"
    /\ candidates = <<>>
    /\ log = <<>>
    /\ fbSearch = 0
    /\ fbLLM = 0
    /\ tSearch = 0
    /\ tScrape = 0
    /\ tLLM = 0

\* an exception of a collaborator leaves the handler, the graph and run
Raise(source) ==
    /\ err' = [source |-> source, stage |-> node, at |-> pc]
    /\ pc' = "raised"
    /\ UNCHANGED <<node, state, result>>

\* a node returns its partial update; the graph merges it and follows the edge
Finish(value) ==
    /\ state' = [state EXCEPT ![UpdateField(node)] = value]
    /\ node' = Edge(node)
    /\ pc' = StartPc(Edge(node))
    /\ completed' = Append(completed, node)
    /\ writes' = Append(writes, UpdateField(node))
    /\ started' = IF Edge(node) = "END" THEN started ELSE Append(started, Edge(node))
    /\ UNCHANGED <<result, err>>

(***************************************************************************)
(* run and node 1, _extract_tools_step                                     *)
(***************************************************************************)
\* run(query): self.workflow.invoke({"query": query})
Run ==
    /\ pc = "idle"
    /\ \E q \in Queries : state' = InitialResearchState(q)
    /\ node' = EntryPoint
    /\ pc' = StartPc(EntryPoint)
    /\ started' = Append(started, EntryPoint)
    /\ UNCHANGED <<pvars, result, err, extractLocals, researchLocals, completed, writes,
                   extractFailed, researchHist, counters>>

\* search_companies(article_query, num_results=3) raises
ExtractSearchRaise ==
    /\ pc = "extract_search"
    /\ Raise("search")
    /\ UNCHANGED <<pvars, extractLocals, researchLocals, stageHist, extractFailed,
                   researchHist, counters>>

\* search_companies(article_query, num_results=3) answers
ExtractSearchOk ==
    /\ pc = "extract_search"
    /\ \E data \in ArticleResultLists : search_results' = data
    /\ j' = 1
    /\ all_content' = <<>>
    /\ pc' = "extract_scrape"
    /\ UNCHANGED <<pvars, node, state, result, err, researchLocals, stageHist,
                   extractFailed, researchHist, counters>>

\* a result without url is passed over
ExtractSkipUrl ==
    /\ pc = "extract_scrape"
    /\ j <= Len(search_results)
    /\ search_results[j] = ""
    /\ j' = j + 1
    /\ UNCHANGED <<pvars, ctl, search_results, all_content, researchLocals, stageHist,
                   extractFailed, researchHist, counters>>

\* scrape_company_pages(url) raises
ExtractScrapeRaise ==
    /\ pc = "extract_scrape"
    /\ j <= Len(search_results)
    /\ search_results[j] # ""
    /\ Raise("scrape")
    /\ UNCHANGED <<pvars, extractLocals, researchLocals, stageHist, extractFailed,
                   researchHist, counters>>

\* scrape_company_pages(url) returns no document
ExtractScrapeNone ==
    /\ pc = "extract_scrape"
    /\ j <= Len(search_results)
    /\ search_results[j] # ""
    /\ j' = j + 1
    /\ UNCHANGED <<pvars, ctl, search_results, all_content, researchLocals, stageHist,
                   extractFailed, researchHist, counters>>

\* all_content += scraped.markdown[:1500] + "\n\n"
ExtractScrapeDoc ==
    /\ pc = "extract_scrape"
    /\ j <= Len(search_results)
    /\ search_results[j] # ""
    /\ \E md \in ArticlePages :
          all_content' = all_content \o Take(md, ChunkChars) \o <<NL, NL>>
    /\ j' = j + 1
    /\ UNCHANGED <<pvars, ctl, search_results, researchLocals, stageHist,
                   extractFailed, researchHist, counters>>

\* llm.invoke(messages) answers: return {"extracted_tools": tool_names}
ExtractLLMOk ==
    /\ pc = "extract_scrape"
    /\ j > Len(search_results)
    /\ \E content \in Contents : Finish(ParseNames(content))
    /\ search_results' = <<>>
    /\ j' = 1
    /\ all_content' = <<>>
    /\ UNCHANGED <<pvars, researchLocals, extractFailed, researchHist, counters>>

\* mutant of ExtractLLMExcept: the exception is not caught
ExtractLLMExcept_Propagates ==
    /\ pc = "extract_scrape"
    /\ j > Len(search_results)
    /\ Raise("llm")
    /\ extractFailed' = TRUE
    /\ UNCHANGED <<pvars, extractLocals, researchLocals, stageHist, researchHist, counters>>

\* llm.invoke(messages) raises: except Exception: return {"extracted_tools": []}
ExtractLLMExcept ==
    /\ pc = "extract_scrape"
    /\ j > Len(search_results)
    /\ Finish(<<>>)
    /\ extractFailed' = TRUE
    /\ search_results' = <<>>
    /\ j' = 1
    /\ all_content' = <<>>
    /\ UNCHANGED <<pvars, researchLocals, researchHist, counters>>

(***************************************************************************)
(* Node 2, _research_step                                                  *)
(***************************************************************************)
\* else: tool_names = extracted_tools; tool_names = tool_names[:4]
ResearchUseExtracted ==
    /\ pc = "research_enter"
    /\ ~UseFallback(state.extracted_tools)
    /\ path' = "extracted"
    /\ candidates' = state.extracted_tools
    /\ tool_names' = CapTools(state.extracted_tools)
    /\ i' = 1
    /\ companies' = <<>>
    /\ pc' = "tool_search"
    /\ UNCHANGED <<pvars, node, state, result, err, extractLocals, titles, company,
                   stageHist, extractFailed, log, counters>>

\* if not extracted_tools: search_companies(state.query, num_results=5) raises
FallbackSearchRaise ==
    /\ pc = "research_enter"
    /\ UseFallback(state.extracted_tools)
    /\ path' = "fallback"
    /\ fbSearch' = fbSearch + 1
    /\ Raise("search")
    /\ UNCHANGED <<pvars, extractLocals, researchLocals, stageHist, extractFailed,
                   candidates, log, fbLLM, tSearch, tScrape, tLLM>>

\* if not extracted_tools: search_companies(state.query, num_results=5) answers
FallbackSearchOk ==
    /\ pc = "research_enter"
    /\ UseFallback(state.extracted_tools)
    /\ path' = "fallback"
    /\ fbSearch' = fbSearch + 1
    /\ \E ts \in TitleLists : titles' = ts
    /\ pc' = "fallback_llm"
    /\ UNCHANGED <<pvars, node, state, result, err, extractLocals, tool_names, i,
                   companies, company, stageHist, extractFailed, candidates, log,
                   fbLLM, tSearch, tScrape, tLLM>>

\* response = self.llm.invoke(recovery_messages) raises: nothing catches it
FallbackLLMRaise ==
    /\ pc = "fallback_llm"
    /\ fbLLM' = fbLLM + 1
    /\ Raise("llm")
    /\ UNCHANGED <<pvars, extractLocals, researchLocals, stageHist, extractFailed,
                   researchHist, fbSearch, tSearch, tScrape, tLLM>>

\* response = self.llm.invoke(recovery_messages) answers; tool_names[:4]
FallbackLLMOk ==
    /\ pc = "fallback_llm"
    /\ fbLLM' = fbLLM + 1
    /\ \E content \in Contents :
          /\ candidates' = ParseNames(content)
          /\ tool_names' = CapTools(ParseNames(content))
    /\ titles' = <<>>
    /\ i' = 1
    /\ companies' = <<>>
    /\ pc' = "tool_search"
    /\ UNCHANGED <<pvars, node, state, result, err, extractLocals, company, stageHist,
                   extractFailed, path, log, fbSearch, tSearch, tScrape, tLLM>>

\* search_companies(f"{tool_name} official site", num_results=1) raises
ToolSearchRaise ==
    /\ pc = "tool_search"
    /\ i <= Len(tool_names)
    /\ tSearch' = tSearch + 1
    /\ Raise("search")
    /\ UNCHANGED <<pvars, extractLocals, researchLocals, stageHist, extractFailed,
                   researchHist, fbSearch, fbLLM, tScrape, tLLM>>

\* mutant of ToolSearchNotFound: a company without site is appended all the same
ToolSearchNotFound_Appends ==
    /\ pc = "tool_search"
    /\ i <= Len(tool_names)
    /\ tSearch' = tSearch + 1
    /\ \E resp \in ToolSearchResponses : ~SiteFound(resp)
    /\ log' = Append(log, [name |-> tool_names[i], kind |-> "miss",
                           url |-> "", markdown |-> ""])
    /\ companies' = Append(companies, CompanyInfo(tool_names[i], "", ""))
    /\ i' = i + 1
    /\ UNCHANGED <<pvars, ctl, extractLocals, titles, tool_names, company,
                   stageHist, extractFailed, path, candidates,
                   fbSearch, fbLLM, tScrape, tLLM>>

\* else: print(f"Could not find an official site for {tool_name}")
ToolSearchNotFound ==
    /\ pc = "tool_search"
    /\ i <= Len(tool_names)
    /\ tSearch' = tSearch + 1
    /\ \E resp \in ToolSearchResponses : ~SiteFound(resp)
    /\ log' = Append(log, [name |-> tool_names[i], kind |-> "miss",
                           url |-> "", markdown |-> ""])
    /\ i' = i + 1
    /\ UNCHANGED <<pvars, ctl, extractLocals, titles, tool_names, companies, company,
                   stageHist, extractFailed, path, candidates,
                   fbSearch, fbLLM, tScrape, tLLM>>

\* company = CompanyInfo(name=tool_name, description=result.get("markdown", ""), website=url)
ToolSearchFound ==
    /\ pc = "tool_search"
    /\ i <= Len(tool_names)
    /\ tSearch' = tSearch + 1
    /\ \E resp \in ToolSearchResponses :
          /\ SiteFound(resp)
          /\ LET hit == resp.data[1]
             IN  /\ company' = CompanyInfo(tool_names[i], hit.markdown, hit.url)
                 /\ log' = Append(log, [name |-> tool_names[i], kind |-> "found",
                                        url |-> hit.url, markdown |-> hit.markdown])
    /\ pc' = "tool_scrape"
    /\ UNCHANGED <<pvars, node, state, result, err, extractLocals, titles, tool_names,
                   i, companies, stageHist, extractFailed, path, candidates,
                   fbSearch, fbLLM, tScrape, tLLM>>

\* scrape_company_pages(url) raises
ToolScrapeRaise ==
    /\ pc = "tool_scrape"
    /\ tScrape' = tScrape + 1
    /\ Raise("scrape")
    /\ UNCHANGED <<pvars, extractLocals, researchLocals, stageHist, extractFailed,
                   researchHist, fbSearch, fbLLM, tSearch, tLLM>>

\* mutant of ToolScrapeNone: a candidate that could not be scraped is dropped
ToolScrapeNone_Drops ==
    /\ pc = "tool_scrape"
    /\ tScrape' = tScrape + 1
    /\ log' = [log EXCEPT ![Len(log)].kind = "noscrape"]
    /\ company' = NoCompany
    /\ i' = i + 1
    /\ pc' = "tool_search"
    /\ UNCHANGED <<pvars, node, state, result, err, extractLocals, titles, tool_names,
                   companies, stageHist, extractFailed, path, candidates,
                   fbSearch, fbLLM, tSearch, tLLM>>

\* scrape_company_pages(url) returns no document: companies.append(company)
ToolScrapeNone ==
    /\ pc = "tool_scrape"
    /\ tScrape' = tScrape + 1
    /\ log' = [log EXCEPT ![Len(log)].kind = "noscrape"]
    /\ companies' = Append(companies, company)
    /\ company' = NoCompany
    /\ i' = i + 1
    /\ pc' = "tool_search"
    /\ UNCHANGED <<pvars, node, state, result, err, extractLocals, titles, tool_names,
                   stageHist, extractFailed, path, candidates,
                   fbSearch, fbLLM, tSearch, tLLM>>

\* scrape_company_pages(url) returns a document
ToolScrapeDoc ==
    /\ pc = "tool_scrape"
    /\ tScrape' = tScrape + 1
    /\ log' = [log EXCEPT ![Len(log)].kind = "scraped"]
    /\ pc' = "tool_analyze"
    /\ UNCHANGED <<pvars, node, state, result, err, extractLocals, researchLocals,
                   stageHist, extractFailed, path, candidates,
                   fbSearch, fbLLM, tSearch, tLLM>>

\* _analyze_company_content: structured_llm.invoke(messages) answers
AnalyzeContentOk ==
    /\ pc = "tool_analyze"
    /\ tLLM' = tLLM + 1
    /\ \E analysis \in Analyses :
          companies' = Append(companies, CopyAnalysis(company, analysis))
    /\ log' = [log EXCEPT ![Len(log)].kind = "analyzed"]
    /\ company' = NoCompany
    /\ i' = i + 1
    /\ pc' = "tool_search"
    /\ UNCHANGED <<pvars, node, state, result, err, extractLocals, titles, tool_names,
                   stageHist, extractFailed, path, candidates,
                   fbSearch, fbLLM, tSearch, tScrape>>

\* _analyze_company_content: structured_llm.invoke(messages) raises, caught
AnalyzeContentExcept ==
    /\ pc = "tool_analyze"
    /\ tLLM' = tLLM + 1
    /\ companies' = Append(companies, CopyAnalysis(company, FallbackAnalysis))
    /\ log' = [log EXCEPT ![Len(log)].kind = "analysis_failed"]
    /\ company' = NoCompany
    /\ i' = i + 1
    /\ pc' = "tool_search"
    /\ UNCHANGED <<pvars, node, state, result, err, extractLocals, titles, tool_names,
                   stageHist, extractFailed, path, candidates,
                   fbSearch, fbLLM, tSearch, tScrape>>

\* return {"companies": companies}
ResearchReturn ==
    /\ pc = "tool_search"
    /\ i > Len(tool_names)
    /\ Finish(companies)
    /\ tool_names' = <<>>
    /\ i' = 1
    /\ companies' = <<>>
    /\ UNCHANGED <<pvars, extractLocals, titles, company, extractFailed, researchHist,
                   counters>>

(***************************************************************************)
(* Node 3, _analyze_step, and the return of run                            *)
(***************************************************************************)
\* response = self.llm.invoke(messages) raises: nothing catches it
AnalyzeLLMRaise ==
    /\ pc = "analyze_llm"
    /\ Raise("llm")
    /\ UNCHANGED <<pvars, extractLocals, researchLocals, stageHist, extractFailed,
                   researchHist, counters>>

\* return {"analysis": response.content}
AnalyzeLLMOk ==
    /\ pc = "analyze_llm"
    /\ \E content \in Recommendations : Finish(content)
    /\ UNCHANGED <<pvars, extractLocals, researchLocals, extractFailed, researchHist,
                   counters>>

\* return ResearchState(**final_state)
RunReturn ==
    /\ pc = "END"
    /\ result' = state
    /\ pc' = "returned"
    /\ UNCHANGED <<pvars, node, state, err, extractLocals, researchLocals, stageHist,
                   extractFailed, researchHist, counters>>

(***************************************************************************)
(* The parsing applied, re-joined and applied again                        *)
(***************************************************************************)
ParseInit ==
    /\ pstage = "input"
    /\ pcontent \in ParseInputs
    /\ parsed = <<>>
    /\ rejoined = <<>>
    /\ reparsed = <<>>

ParseIdle ==
    /\ pstage = "input"
    /\ pcontent = <<>>
    /\ parsed = <<>>
    /\ rejoined = <<>>
    /\ reparsed = <<>>

\* the response is parsed into tool names
ParseStep ==
    /\ pstage = "input"
    /\ parsed' = ParseNames(pcontent)
    /\ pstage' = "parsed"
    /\ UNCHANGED <<pcontent, rejoined, reparsed, wvars>>

\* the names are joined with newlines again
RejoinStep ==
    /\ pstage = "parsed"
    /\ rejoined' = JoinLines(parsed)
    /\ pstage' = "rejoined"
    /\ UNCHANGED <<pcontent, parsed, reparsed, wvars>>

\* and the joined text is parsed a second time
ReparseStep ==
    /\ pstage = "rejoined"
    /\ reparsed' = ParseNames(rejoined)
    /\ pstage' = "reparsed"
    /\ UNCHANGED <<pcontent, parsed, rejoined, wvars>>

(***************************************************************************)
(* Specifications                                                          *)
(***************************************************************************)
Init == WorkflowInit /\ ParseIdle

Next ==
    \/ Run
    \/ ExtractSearchRaise
    \/ ExtractSearchOk
    \/ ExtractSkipUrl
    \/ ExtractScrapeRaise
    \/ ExtractScrapeNone
    \/ ExtractScrapeDoc
    \/ ExtractLLMOk
    \/ ExtractLLMExcept
    \/ ResearchUseExtracted
    \/ FallbackSearchRaise
    \/ FallbackSearchOk
    \/ FallbackLLMRaise
    \/ FallbackLLMOk
    \/ ToolSearchRaise
    \/ ToolSearchNotFound
    \/ ToolSearchFound
    \/ ToolScrapeRaise
    \/ ToolScrapeNone
    \/ ToolScrapeDoc
    \/ AnalyzeContentOk
    \/ AnalyzeContentExcept
    \/ ResearchReturn
    \/ AnalyzeLLMRaise
    \/ AnalyzeLLMOk
    \/ RunReturn

\* the run of the workflow
Spec == Init /\ [][Next]_vars

InitParse == WorkflowInit /\ ParseInit

NextParse ==
    \/ ParseStep
    \/ RejoinStep
    \/ ReparseStep

\* the tool-name parsing applied to every short response
SpecParse == InitParse /\ [][NextParse]_vars

(***************************************************************************)
(* Properties                                                              *)
(***************************************************************************)
StageOrder == <<"extract_tools", "research", "analyze">>

IsPrefix(s, t) == Len(s) <= Len(t) /\ s = SubSeq(t, 1, Len(s))

ResearchDone == \E k \in 1..Len(completed) : completed[k] = "research"

InToolLoop == pc \in {"tool_search", "tool_scrape", "tool_analyze"}

\* the companies list of the research stage: its local list, then the state's field
Comps == IF ResearchDone THEN state.companies ELSE companies

NamesOf(recs) == [k \in 1..Len(recs) |-> recs[k].name]

SiteWasFound(e) == e.kind # "miss"

Settled(e) == e.kind \in {"noscrape", "analyzed", "analysis_failed"}

\* position in the companies list of the company of the k-th candidate
Pos(k) == Cardinality({m \in 1..k : SiteWasFound(log[m])})

\* C1: a run that returns has between 0 and 4 companies, and a run that raises
\* raises from a call of the search, scrape or LLM collaborator.
ReturnsAtMostFourOrRaises ==
    /\ pc = "returned" => Len(result.companies) \in 0..4
    /\ pc = "raised" =>
          /\ err.source \in {"search", "scrape", "llm"}
          /\ err.at \in {"extract_search", "extract_scrape", "research_enter",
                         "fallback_llm", "tool_search", "tool_scrape", "analyze_llm"}

ReturnedFourOfLonger ==
    /\ pc = "returned"
    /\ Len(result.companies) = 4
    /\ Len(candidates) > 4

\* C2: with nothing extracted the fallback search and the fallback LLM call are
\* each made exactly once and the candidates come from the fallback; with
\* something extracted neither is made and the candidates are extracted_tools.
FallbackExactlyOnce ==
    /\ fbSearch <= 1
    /\ fbLLM <= 1
    /\ path = "extracted" =>
          /\ state.extracted_tools # <<>>
          /\ fbSearch = 0
          /\ fbLLM = 0
          /\ candidates = state.extracted_tools
    /\ path = "fallback" =>
          /\ state.extracted_tools = <<>>
          /\ fbSearch = 1
    /\ (InToolLoop \/ ResearchDone) =>
          /\ path = IF state.extracted_tools = <<>> THEN "fallback" ELSE "extracted"
          /\ state.extracted_tools = <<>> => fbSearch = 1 /\ fbLLM = 1

FallbackTakenOnce ==
    /\ ResearchDone
    /\ state.extracted_tools = <<>>
    /\ path = "fallback"
    /\ fbSearch = 1
    /\ fbLLM = 1
    /\ state.companies # <<>>

\* C3, as stated: in the research stage each collaborator (search, scrape, LLM)
\* is called at most 4 times.
AtMostFourCallsEach ==
    /\ fbSearch + tSearch <= 4
    /\ tScrape <= 4
    /\ fbLLM + tLLM <= 4

\* C3, amended: the names are capped to the first 4 before any per-candidate
\* call, so the per-candidate calls to each collaborator number at most 4; with
\* the one search and one LLM call of the fallback the research stage makes at
\* most 5 searches, 4 scrapes and 5 LLM calls.
PerCandidateCallsCapped ==
    /\ InToolLoop => tool_names = Take(candidates, 4)
    /\ Len(tool_names) <= 4
    /\ tSearch <= 4
    /\ tScrape <= 4
    /\ tLLM <= 4
    /\ tSearch > 0 => Len(log) <= 4
    /\ fbSearch + tSearch <= 5
    /\ fbLLM + tLLM <= 5

FourCandidatesResearched ==
    /\ Len(candidates) > 4
    /\ fbSearch = 1
    /\ tSearch = 4
    /\ tScrape = 4
    /\ tLLM = 4

\* C4: when the structured analysis of a scraped candidate raises, nothing
\* reaches the research stage, the appended company carries the placeholder
\* values, and the remaining candidates are processed.
AnalysisFailureContained ==
    /\ ~(pc = "raised" /\ err.at = "tool_analyze")
    /\ \A k \in 1..Len(log) :
          log[k].kind = "analysis_failed" =>
             /\ Pos(k) <= Len(Comps)
             /\ LET c == Comps[Pos(k)]
                IN  /\ c.name = log[k].name
                    /\ c.pricing_model = "Unknown"
                    /\ c.description = "Failed to analyze content."
                    /\ c.is_open_source = "None"
                    /\ c.api_available = "None"
                    /\ c.tech_stack = <<>>
                    /\ c.language_support = <<>>
                    /\ c.integration_capabilities = <<>>
    /\ ResearchDone => NamesOf(log) = Take(candidates, 4)

AnalysisFailedThenContinued ==
    /\ ResearchDone
    /\ Len(log) >= 2
    /\ log[1].kind = "analysis_failed"
    /\ log[2].kind = "analyzed"
    /\ Len(state.companies) >= 2

\* C5: a candidate whose site was found but whose scrape returned no document
\* is appended with its name, the result url, the result markdown as
\* description and every other attribute at its default; the analyzer is not
\* called for it, and the loop goes on.
UnscrapedCandidateKept ==
    /\ \A k \in 1..Len(log) :
          log[k].kind = "noscrape" =>
             /\ Pos(k) <= Len(Comps)
             /\ Comps[Pos(k)] = CompanyInfo(log[k].name, log[k].markdown, log[k].url)
    /\ tLLM = Cardinality({k \in 1..Len(log) :
                             log[k].kind \in {"analyzed", "analysis_failed"}})
    /\ ResearchDone => Len(log) = Len(Take(candidates, 4))

UnscrapedThenContinued ==
    /\ ResearchDone
    /\ Len(log) >= 2
    /\ log[1].kind = "noscrape"
    /\ log[1].markdown = "snippet"
    /\ log[2].kind = "analyzed"
    /\ state.companies[1].description = "snippet"

\* C6: no failure of an LLM call made inside the research stage leaves the stage.
NoLLMFailureLeavesResearch ==
    ~(pc = "raised" /\ err.stage = "research" /\ err.source = "llm")

\* C7: when the LLM call of the extraction stage raises, the stage returns an
\* empty extracted_tools without raising, the run goes on to the research
\* stage, and the research stage takes the fallback.
ExtractionFailureNotFatal ==
    extractFailed =>
       /\ ~(pc = "raised" /\ err.stage = "extract_tools")
       /\ Len(completed) >= 1
       /\ completed[1] = "extract_tools"
       /\ state.extracted_tools = <<>>
       /\ Len(started) >= 2
       /\ started[2] = "research"
       /\ path # "extracted"
       /\ pc # "research_enter" => path = "fallback"

ExtractionFailedRunReturned ==
    /\ extractFailed
    /\ path = "fallback"
    /\ pc = "returned"
    /\ result.companies # <<>>

\* C8: the companies are, by name and in order, exactly those of the first 4
\* candidate names whose official-site search returned a result.
CompaniesAreFoundCandidates ==
    /\ (InToolLoop \/ ResearchDone) =>
          /\ IsPrefix(NamesOf(log), Take(candidates, 4))
          /\ NamesOf(Comps) = NamesOf(SelectSeq(log, Settled))
    /\ ResearchDone =>
          /\ NamesOf(log) = Take(candidates, 4)
          /\ NamesOf(state.companies) = NamesOf(SelectSeq(log, SiteWasFound))

SomeFoundSomeSkipped ==
    /\ ResearchDone
    /\ Len(candidates) > 4
    /\ log[1].kind = "miss"
    /\ log[2].kind # "miss"
    /\ log[3].kind = "miss"
    /\ log[4].kind # "miss"
    /\ NamesOf(state.companies) = <<candidates[2], candidates[4]>>

\* C9: the nodes run in the order extract_tools, research, analyze, each at
\* most once and each only after the one before it returned; a returned state
\* had extracted_tools, companies and analysis written in that order.
StagesInOrder ==
    /\ IsPrefix(started, StageOrder)
    /\ IsPrefix(completed, started)
    /\ Len(started) <= Len(completed) + 1
    /\ pc \notin {"idle", "raised", "END", "returned"} =>
          /\ Len(started) = Len(completed) + 1
          /\ node = started[Len(started)]
    /\ pc \in {"END", "returned"} => completed = StageOrder
    /\ writes = [k \in 1..Len(completed) |-> UpdateField(completed[k])]
    /\ pc = "returned" =>
          /\ writes = <<"extracted_tools", "companies", "analysis">>
          /\ result.analysis # "None"

AllStagesRan ==
    /\ pc = "returned"
    /\ completed = StageOrder
    /\ result.companies # <<>>

\* the lines of s between newlines, each trimmed, the empty ones left out
RECURSIVE ScanLines(_, _)
ScanLines(s, cur) ==
    LET flush == IF Strip(cur) = <<>> THEN <<>> ELSE <<Strip(cur)>>
    IN  IF s = <<>> THEN flush
        ELSE IF Head(s) = NL THEN flush \o ScanLines(Tail(s), <<>>)
        ELSE ScanLines(Tail(s), cur \o <<Head(s)>>)

\* C10: parsing returns the non-blank lines of the response, trimmed and in
\* order ("A\nB\n\nC\n" gives A, B, C), and parsing the names joined by
\* newlines again gives the same names.
ParsingKeepsNonBlankLines ==
    /\ pstage # "input" => parsed = ScanLines(pcontent, <<>>)
    /\ (pstage # "input" /\ pcontent = ExampleContent) =>
          parsed = << <<"A">>, <<"B">>, <<"C">> >>
    /\ pstage = "reparsed" => reparsed = parsed

ExampleParsedTwice ==
    /\ pstage = "reparsed"
    /\ pcontent = ExampleContent
    /\ reparsed = << <<"A">>, <<"B">>, <<"C">> >>

====
